---- MODULE Spec2Model ----
(***************************************************************************)
(* Model of the benchmark-result scripts scripts/collect_metrics.py and    *)
(* scripts/merge_results.py.  One run of one script is one behaviour: the  *)
(* initial state fixes the script, the environment (RESULTS_DIR) and the   *)
(* JSON files on disk; the actions are the iterations of the loader loop   *)
(* and the steps of main.                                                  *)
(*                                                                         *)
(* Python values are records [t, s, n] (None, a str or an int).  A path    *)
(* segment (a directory name or a file stem) is a sequence of tokens whose *)
(* concatenation is the name, so that `marker in name` and                 *)
(* `name.startswith(prefix)` are computed, not assumed.                    *)
(***************************************************************************)
EXTENDS Integers, Sequences, FiniteSets, TLC

VARIABLES prog, results_dir, fs, pc, pat, idx, results, all_records, loaded,
          console, files, groups, lines, df, error

vars == <<prog, results_dir, fs, pc, pat, idx, results, all_records, loaded,
          console, files, groups, lines, df, error>>

\* The most files on disk in one run.
MaxFiles == 2

---------------------------------------------------------------------------
\* Python values

PyNone == [t |-> "none", s |-> "", n |-> 0]

PyStr(x) == [t |-> "str", s |-> x, n |-> 0]

PyInt(k) == [t |-> "int", s |-> "", n |-> k]

\* bool(v): None, 0 and '' are falsy.
Truthy(v) ==
    CASE v.t = "none" -> FALSE
      [] v.t = "int"  -> v.n # 0
      [] OTHER        -> v.s # ""

\* dict.get(key, default)
DictGet(d, k, default) == IF k \in DOMAIN d THEN d[k] ELSE default

Digits == <<"0", "1", "2", "3", "4", "5", "6", "7", "8", "9">>

RECURSIVE IntStr(_)
\* str(n) of a non-negative int
IntStr(n) ==
    IF n < 10 THEN Digits[n + 1]
    ELSE IntStr(n \div 10) \o Digits[(n % 10) + 1]

\* The text the csv module writes for a value: None becomes the empty
\* string, anything else its str().
CsvCell(v) ==
    CASE v.t = "none" -> ""
      [] v.t = "int"  -> IntStr(v.n)
      [] OTHER        -> v.s

---------------------------------------------------------------------------
\* Paths.  A segment is a sequence of tokens, a path a sequence of segments.

\* `marker in segment`
SegContains(seg, marker) == \E i \in 1..Len(seg) : seg[i] = marker

\* `marker in filepath`: the marker occurs in some segment of the path.
PathContains(path, marker) ==
    \E i \in 1..Len(path) : SegContains(path[i], marker)

\* segment.startswith(first + second)
SegStartsWith(seg, first, second) ==
    Len(seg) >= 2 /\ seg[1] = first /\ seg[2] = second

\* str.lower() of a token
LowerTok(tok) == IF tok = "Benchmark" THEN "benchmark" ELSE tok

\* segment.lower()
SegLower(seg) == [i \in 1..Len(seg) |-> LowerTok(seg[i])]

\* The path of a file as glob returns it: directories, then the file name.
FilePath(f) == Append(f.dir, f.name)

\* Whether `pre` is a prefix of the sequence `s`.
IsPrefix(pre, s) == Len(pre) <= Len(s) /\ SubSeq(s, 1, Len(pre)) = pre

---------------------------------------------------------------------------
\* JSON documents.  A document is malformed text, a list, or an object; an
\* object has its top-level keys and, under 'performance', nothing, an
\* object or a scalar.

EmptyDict == [k \in {} |-> PyNone]

Without(d, k) == [x \in DOMAIN d \ {k} |-> d[x]]

Nested(top, perf) ==
    [kind |-> "object", top |-> top, perfKind |-> "object", perf |-> perf]

\* The flat schema: the metrics are top-level keys.
Flat(top, perf) ==
    [kind |-> "object", top |-> perf @@ top, perfKind |-> "absent",
     perf |-> EmptyDict]

Malformed ==
    [kind |-> "malformed", top |-> EmptyDict, perfKind |-> "absent",
     perf |-> EmptyDict]

ListDoc ==
    [kind |-> "list", top |-> EmptyDict, perfKind |-> "absent",
     perf |-> EmptyDict]

BaseTop ==
    [tool |-> PyStr("docker"), service |-> PyStr("api"),
     dockerfile_type |-> PyStr("multi"), cache_scenario |-> PyStr("warm"),
     run_number |-> PyInt(1), timestamp |-> PyStr("t0"),
     ci_system |-> PyStr("github"), exit_code |-> PyInt(2)]

BasePerf ==
    [build_duration_seconds |-> PyInt(10), cpu_percent |-> PyInt(40),
     cpu_user_seconds |-> PyInt(2), cpu_system_seconds |-> PyInt(1),
     memory_peak_mb |-> PyInt(100), image_size |-> PyStr("50MB"),
     image_size_bytes |-> PyInt(500), cache_hits |-> PyInt(3),
     cache_total_steps |-> PyInt(4), cache_hit_ratio |-> PyInt(1)]

BaseDoc == Nested(BaseTop, BasePerf)

\* A cold-cache run: no cache hit at all.
ColdDoc ==
    Nested([BaseTop EXCEPT !["cache_scenario"] = PyStr("cold")],
           [BasePerf EXCEPT !["cache_hits"] = PyInt(0),
                            !["cache_hit_ratio"] = PyInt(0)])

\* The documents of a run of collect_metrics.py.
CollectDocs ==
    { BaseDoc, ColdDoc, Flat(BaseTop, BasePerf), Malformed, ListDoc,
      [BaseDoc EXCEPT !.perfKind = "scalar", !.perf = EmptyDict],
      Nested(EmptyDict, EmptyDict),
      Nested(Without(BaseTop, "tool"), BasePerf),
      Nested([BaseTop EXCEPT !["tool"] = PyStr("kaniko")], BasePerf),
      Nested(BaseTop, Without(BasePerf, "build_duration_seconds")),
      Nested(BaseTop, [BasePerf EXCEPT !["build_duration_seconds"] = PyInt(0)]),
      Nested(BaseTop, [BasePerf EXCEPT !["build_duration_seconds"] = PyInt(25)]),
      Nested(BaseTop, [BasePerf EXCEPT !["cpu_percent"] = PyInt(0)]),
      Nested(BaseTop, [BasePerf EXCEPT !["cache_hit_ratio"] = PyInt(0)]) }

\* The documents of a run of merge_results.py.
MergeDocs ==
    { BaseDoc, Flat(BaseTop, BasePerf), Malformed, ListDoc,
      Nested(EmptyDict, EmptyDict),
      Nested([BaseTop EXCEPT !["ci_system"] = PyStr("gitlab")], BasePerf),
      Nested([BaseTop EXCEPT !["tool"] = PyStr("kaniko")], BasePerf),
      Nested([BaseTop EXCEPT !["run_number"] = PyInt(2)], BasePerf),
      [BaseDoc EXCEPT !.perfKind = "scalar", !.perf = EmptyDict] }

---------------------------------------------------------------------------
\* Files on disk

\* The filter of load_results: a marker anywhere in the path glob returned.
Excluded(f) ==
    \/ PathContains(FilePath(f), "trivy")
    \/ PathContains(FilePath(f), "sbom")
    \/ PathContains(FilePath(f), "security")

PlainName == <<"docker", "-", "run">>

\* File stems with and without a security-scan marker.
Names ==
    { PlainName, <<"trivy", "-", "docker">>, <<"docker", "-", "trivy">>,
      <<"sbom", "-", "docker">>, <<"security", "-", "scan">>,
      <<"Benchmark", "-", "run">> }

\* Values of RESULTS_DIR: the default and a directory whose name has a marker.
ResultsDirs == { <<<<"results">>>>, <<<<"security", "-", "study">>>> }

\* Directories below results_dir: itself, a plain one, one with a marker.
SubDirs == { <<>>, <<<<"github">>>>, <<<<"trivy", "-", "reports">>>> }

\* What a file of a collect_metrics.py run may be: the base document under
\* any name at the top or in a plain directory, or under a plain name in a
\* directory with a marker; or any document under a plain name at the top.
\* Below a results_dir that has a marker itself only the former.
CollectChoices(rd) ==
    { [dir |-> rd \o sub, name |-> nm, doc |-> BaseDoc] :
        sub \in {<<>>, <<<<"github">>>>},
        nm \in Names \ {<<"Benchmark", "-", "run">>, <<"docker", "-", "trivy">>} }
    \cup { [dir |-> rd \o sub, name |-> PlainName, doc |-> BaseDoc] :
             sub \in SubDirs }
    \cup { [dir |-> rd, name |-> PlainName, doc |-> d] :
             d \in IF Excluded([dir |-> rd, name |-> <<>>]) THEN {}
                   ELSE CollectDocs }

\* Directories merge_results.py searches, or does not.
MergeDirs ==
    { <<<<"results">>>>, <<<<"final", "-", "results">>>>,
      <<<<"results", "-", "github">>, <<"run", "1">>>>,
      <<<<"results", "-", "github">>>>,
      <<<<"results">>, <<"old">>>> }

\* What a file of a merge_results.py run may be: the base document under
\* any name in results/ or under a plain name elsewhere, or any document
\* under a plain name in results/.
MergeChoices ==
    { [dir |-> <<<<"results">>>>, name |-> nm, doc |-> BaseDoc] : nm \in Names }
    \cup { [dir |-> d, name |-> PlainName, doc |-> BaseDoc] : d \in MergeDirs }
    \cup { [dir |-> <<<<"results", "-", "github">>, <<"run", "1">>>>,
            name |-> <<"trivy", "-", "docker">>, doc |-> BaseDoc] }
    \cup { [dir |-> <<<<"results">>>>, name |-> PlainName, doc |-> d] :
             d \in MergeDocs }

\* Files in one directory have different names: the i-th file's stem ends
\* in its number.
Stamp(f, i) == [f EXCEPT !.name = f.name \o <<"-", IntStr(i)>>]

\* os.path.basename(filepath) without the extension
Basename(f) == f.name

---------------------------------------------------------------------------
\* glob

\* root/*/.../*.json with `stars` directory wildcards, or root/**/*.json.
Pattern(root, stars, recursive) ==
    [root |-> root, stars |-> stars, recursive |-> recursive]

\* Whether glob returns file f for pattern p: `**` (with recursive=True)
\* stands for zero or more directories, `*` for exactly one.
Matches(p, f) ==
    /\ IsPrefix(p.root, f.dir)
    /\ p.recursive \/ Len(f.dir) = Len(p.root) + p.stars

\* glob.glob(pattern): the matching files (their positions in fs).
Glob(p) ==
    SelectSeq([i \in 1..Len(fs) |-> i], LAMBDA i : Matches(p, fs[i]))

\* collect_metrics.load_results: the two patterns it walks.
CollectPatterns ==
    << Pattern(results_dir, 0, FALSE), Pattern(results_dir, 0, TRUE) >>

\* merge_results.main: search_paths
search_paths ==
    << Pattern(<<<<"results", "-", "github">>>>, 1, FALSE),
       Pattern(<<<<"results", "-", "gitlab">>>>, 1, FALSE),
       Pattern(<<<<"results", "-", "gitlab", "-", "public">>>>, 1, FALSE),
       Pattern(<<<<"results">>>>, 0, FALSE),
       Pattern(<<<<"final", "-", "results">>>>, 0, FALSE) >>

Patterns == IF prog = "collect" THEN CollectPatterns ELSE search_paths

\* The files of the pattern being walked, and the file the loop is at.
Found == Glob(Patterns[pat])

AtFile == pc = "load" /\ idx <= Len(Found)

Cur == fs[Found[idx]]

---------------------------------------------------------------------------
\* collect_metrics.py: load_results

\* json.load raises JSONDecodeError, which load_results catches.
DecodeError(doc) == doc.kind = "malformed"

\* data.get or perf.get raises AttributeError (data or perf is no dict),
\* which load_results does not catch.
AttributeError(doc) ==
    doc.kind = "list" \/ (doc.kind = "object" /\ doc.perfKind = "scalar")

\* The record load_results builds from a parsed object.
CollectFlat(doc) ==
    LET data == doc.top
        perf == IF doc.perfKind = "object" THEN doc.perf ELSE data
    IN  [tool |-> DictGet(data, "tool", PyNone),
         service |-> DictGet(data, "service", PyNone),
         dockerfile_type |-> DictGet(data, "dockerfile_type", PyNone),
         cache_scenario |-> DictGet(data, "cache_scenario", PyNone),
         run_number |-> DictGet(data, "run_number", PyNone),
         timestamp |-> DictGet(data, "timestamp", PyNone),
         ci_system |-> DictGet(data, "ci_system", PyNone),
         exit_code |-> DictGet(data, "exit_code", PyInt(0)),
         build_duration_seconds |-> DictGet(perf, "build_duration_seconds", PyNone),
         cpu_percent |-> DictGet(perf, "cpu_percent", PyInt(0)),
         cpu_user_seconds |-> DictGet(perf, "cpu_user_seconds", PyInt(0)),
         cpu_system_seconds |-> DictGet(perf, "cpu_system_seconds", PyInt(0)),
         memory_peak_mb |-> DictGet(perf, "memory_peak_mb", PyInt(0)),
         image_size |-> DictGet(perf, "image_size", PyNone),
         image_size_bytes |-> DictGet(perf, "image_size_bytes", PyInt(0)),
         cache_hits |-> DictGet(perf, "cache_hits", PyInt(0)),
         cache_total_steps |-> DictGet(perf, "cache_total_steps", PyInt(0)),
         cache_hit_ratio |-> DictGet(perf, "cache_hit_ratio", PyInt(0))]

\* One iteration of the inner loop, for a file the filter drops.
LoadSkip ==
    /\ prog = "collect" /\ AtFile
    /\ Excluded(Cur)
    /\ idx' = idx + 1
    /\ UNCHANGED <<prog, results_dir, fs, pc, pat, results, all_records,
                   loaded, console, files, groups, lines, df, error>>

\* One iteration for a file that parses: its record is appended.
LoadAppend ==
    /\ prog = "collect" /\ AtFile
    /\ ~Excluded(Cur)
    /\ ~DecodeError(Cur.doc) /\ ~AttributeError(Cur.doc)
    /\ results' = Append(results, CollectFlat(Cur.doc))
    /\ loaded' = Append(loaded, Found[idx])
    /\ idx' = idx + 1
    /\ UNCHANGED <<prog, results_dir, fs, pc, pat, all_records, console,
                   files, groups, lines, df, error>>

\* One iteration for malformed JSON: the except clause prints a warning.
LoadWarn ==
    /\ prog = "collect" /\ AtFile
    /\ ~Excluded(Cur)
    /\ DecodeError(Cur.doc)
    /\ console' = Append(console, "Warning: Could not parse")
    /\ idx' = idx + 1
    /\ UNCHANGED <<prog, results_dir, fs, pc, pat, results, all_records,
                   loaded, files, groups, lines, df, error>>

\* One iteration for JSON that is no object: the AttributeError leaves
\* load_results and main, and the script ends with a traceback.
LoadRaise ==
    /\ prog = "collect" /\ AtFile
    /\ ~Excluded(Cur)
    /\ AttributeError(Cur.doc)
    /\ pc' = "raised"
    /\ error' = "AttributeError"
    /\ UNCHANGED <<prog, results_dir, fs, pat, idx, results, all_records,
                   loaded, console, files, groups, lines, df>>

\* The outer loop of load_results goes on to the recursive pattern.
LoadNextPattern ==
    /\ prog = "collect" /\ pc = "load"
    /\ idx > Len(Found) /\ pat < Len(Patterns)
    /\ pat' = pat + 1
    /\ idx' = 1
    /\ UNCHANGED <<prog, results_dir, fs, pc, results, all_records, loaded,
                   console, files, groups, lines, df, error>>

\* Both loops of the loader are over.
LoadOver == pc = "load" /\ idx > Len(Found) /\ pat = Len(Patterns)

---------------------------------------------------------------------------
\* collect_metrics.py: export_to_csv

\* The columns as the keys of a record in the order load_results sets them
\* (list(results[0].keys())): exit_code comes eighth, not last.
fieldnames_from_record ==
    << "tool", "service", "dockerfile_type", "cache_scenario", "run_number",
       "timestamp", "ci_system", "exit_code", "build_duration_seconds",
       "cpu_percent", "cpu_user_seconds", "cpu_system_seconds",
       "memory_peak_mb", "image_size", "image_size_bytes",
       "cache_hits", "cache_total_steps", "cache_hit_ratio" >>

fieldnames ==
    << "tool", "service", "dockerfile_type", "cache_scenario", "run_number",
       "timestamp", "ci_system", "build_duration_seconds",
       "cpu_percent", "cpu_user_seconds", "cpu_system_seconds",
       "memory_peak_mb", "image_size", "image_size_bytes",
       "cache_hits", "cache_total_steps", "cache_hit_ratio", "exit_code" >>

\* csv.DictWriter.writerow: one cell per column, '' (restval) for a key the
\* record lacks, keys outside the columns ignored.
CsvRow(columns, r) ==
    [c \in 1..Len(columns) |->
        IF columns[c] \in DOMAIN r THEN CsvCell(r[columns[c]]) ELSE ""]

CsvFile(columns, rs) ==
    [header |-> columns, rows |-> [i \in 1..Len(rs) |-> CsvRow(columns, rs[i])]]

EmptyFiles == [name \in {} |-> CsvFile(<<>>, <<>>)]

\* The files on disk after export_to_csv(rs, output_path).
export_to_csv(rs, output_path, disk) ==
    IF Len(rs) = 0 THEN disk
    ELSE (output_path :> CsvFile(fieldnames, rs)) @@ disk

\* What export_to_csv prints.
ExportMessage(rs) ==
    IF Len(rs) = 0 THEN "No results to export" ELSE "Exported results"

---------------------------------------------------------------------------
\* Ordering of Python values (tuple and str comparison)

\* The strings of the documents in Python's str order.
StrOrder ==
    << "", "50MB", "api", "cold", "docker", "github", "gitlab", "kaniko",
       "multi", "t0", "warm" >>

Rank(str) == CHOOSE i \in 1..Len(StrOrder) : StrOrder[i] = str

\* a < b for two values of one type
ValLess(a, b) ==
    CASE a.t = "int" -> a.n < b.n
      [] a.t = "str" -> Rank(a.s) < Rank(b.s)
      [] OTHER       -> FALSE

\* The first position where two different tuples of one length differ.
FirstDiff(a, b) ==
    CHOOSE i \in 1..Len(a) : a[i] # b[i] /\ \A j \in 1..(i - 1) : a[j] = b[j]

\* a < b raises TypeError: the first differing components are of
\* different types (None against str, str against int).
TupleCmpRaises(a, b) == a # b /\ a[FirstDiff(a, b)].t # b[FirstDiff(a, b)].t

\* a < b for tuples
TupleLess(a, b) == a # b /\ ValLess(a[FirstDiff(a, b)], b[FirstDiff(a, b)])

RECURSIVE SortedTuples(_)
\* sorted(S) for a set of tuples no two of which raise when compared
SortedTuples(S) ==
    IF S = {} THEN <<>>
    ELSE LET m == CHOOSE k \in S : \A o \in S \ {k} : TupleLess(k, o)
         IN  <<m>> \o SortedTuples(S \ {m})

---------------------------------------------------------------------------
\* collect_metrics.py: print_summary

\* The test by truth value (`if r.get('build_duration_seconds')`), which
\* also leaves out a duration of 0.
HasDurationTruthy(r) == Truthy(r.build_duration_seconds)

\* The test that puts a record into a group.
HasDuration(r) == r.build_duration_seconds # PyNone

GroupKey(r) == <<r.tool, r.service, r.dockerfile_type, r.cache_scenario>>

\* groups after the first loop: key -> the list of its records, in order
GroupsOf(rs) ==
    [k \in {GroupKey(rs[i]) : i \in {j \in 1..Len(rs) : HasDuration(rs[j])}} |->
        SelectSeq(rs, LAMBDA r : HasDuration(r) /\ GroupKey(r) = k)]

\* sorted(groups.items()) raises TypeError
SortRaises(g) == \E a, b \in DOMAIN g : TupleCmpRaises(a, b)

\* The f-string raises TypeError: None has no format spec '<10'.
FormatRaises(key) == \E i \in 1..Len(key) : key[i] = PyNone

\* [r[field] for r in runs if r.get(field)]
TruthyValues(runs, field) ==
    LET kept == SelectSeq(runs, LAMBDA r : Truthy(r[field]))
    IN  [i \in 1..Len(kept) |-> kept[i][field].n]

RECURSIVE SumSeq(_)
SumSeq(xs) == IF xs = <<>> THEN 0 ELSE Head(xs) + SumSeq(Tail(xs))

\* statistics.mean(xs) if xs else 0, as the fraction <<numerator, denominator>>
MeanOrZero(xs) == IF xs = <<>> THEN <<0, 1>> ELSE <<SumSeq(xs), Len(xs)>>

RECURSIVE Pow10(_)
Pow10(d) == IF d = 0 THEN 1 ELSE 10 * Pow10(d - 1)

\* format(x, '.<d>f') of a non-negative fraction, in units of 10^-d: the
\* nearest one, a tie going to the even one.
FormatF(x, d) ==
    LET scaled == x[1] * Pow10(d)
        q == scaled \div x[2]
        r == scaled % x[2]
    IN  IF 2 * r > x[2] \/ (2 * r = x[2] /\ q % 2 = 1) THEN q + 1 ELSE q

\* The line print_summary prints for one group.
SummaryLine(key, runs) ==
    [tool |-> CsvCell(key[1]), service |-> CsvCell(key[2]),
     dtype |-> CsvCell(key[3]), scenario |-> CsvCell(key[4]),
     mean_dur |-> FormatF(MeanOrZero(TruthyValues(runs, "build_duration_seconds")), 2),
     mean_cpu |-> FormatF(MeanOrZero(TruthyValues(runs, "cpu_percent")), 1),
     mean_mem |-> FormatF(MeanOrZero(TruthyValues(runs, "memory_peak_mb")), 1),
     mean_cache |-> FormatF(MeanOrZero(TruthyValues(runs, "cache_hit_ratio")), 4),
     n |-> Len(runs)]

\* Whether print_summary raises for these groups.
SummaryRaises(g) == SortRaises(g) \/ \E k \in DOMAIN g : FormatRaises(k)

\* The lines print_summary has printed when it returns or raises: none if
\* sorted raises, else those of the groups before the first whose key
\* holds None.
SummaryLines(g) ==
    IF SortRaises(g) THEN <<>>
    ELSE LET keys == SortedTuples(DOMAIN g)
             bad == {i \in 1..Len(keys) : FormatRaises(keys[i])}
             last == IF bad = {} THEN Len(keys)
                     ELSE (CHOOSE i \in bad : \A j \in bad : i <= j) - 1
         IN  [i \in 1..last |-> SummaryLine(keys[i], g[keys[i]])]

\* print_summary returns.
PrintSummary ==
    /\ prog = "collect" /\ pc = "exported"
    /\ ~SummaryRaises(GroupsOf(results))
    /\ groups' = GroupsOf(results)
    /\ lines' = SummaryLines(GroupsOf(results))
    /\ console' = Append(console, "BENCHMARK SUMMARY")
    /\ pc' = "done"
    /\ UNCHANGED <<prog, results_dir, fs, pat, idx, results, all_records,
                   loaded, files, df, error>>

\* print_summary raises TypeError, in sorted or in the f-string.
PrintSummaryRaise ==
    /\ prog = "collect" /\ pc = "exported"
    /\ SummaryRaises(GroupsOf(results))
    /\ groups' = GroupsOf(results)
    /\ lines' = SummaryLines(GroupsOf(results))
    /\ console' = Append(console, "BENCHMARK SUMMARY")
    /\ pc' = "raised"
    /\ error' = "TypeError"
    /\ UNCHANGED <<prog, results_dir, fs, pat, idx, results, all_records,
                   loaded, files, df>>

---------------------------------------------------------------------------
\* collect_metrics.py: main

\* A main without the test for an empty list.
NoResultsNever(rs) == FALSE

\* `not results`
NoResults(rs) == Len(rs) = 0

\* main when load_results returned nothing.
MainNoResults ==
    /\ prog = "collect" /\ LoadOver
    /\ NoResults(results)
    /\ console' = Append(console, "No benchmark results found!")
    /\ pc' = "done"
    /\ UNCHANGED <<prog, results_dir, fs, pat, idx, results, all_records,
                   loaded, files, groups, lines, df, error>>

\* main when load_results returned records: export_to_csv is called.
MainExport ==
    /\ prog = "collect" /\ LoadOver
    /\ ~NoResults(results)
    /\ files' = export_to_csv(results, "OUTPUT_CSV", files)
    /\ console' = console \o <<"Loaded result files", ExportMessage(results)>>
    /\ pc' = "exported"
    /\ UNCHANGED <<prog, results_dir, fs, pat, idx, results, all_records,
                   loaded, groups, lines, df, error>>

---------------------------------------------------------------------------
\* merge_results.py: load_json_file

RECURSIVE JoinTokens(_)
\* The text of a segment: its tokens one after the other.
JoinTokens(seg) == IF seg = <<>> THEN "" ELSE Head(seg) \o JoinTokens(Tail(seg))

\* The record load_json_file builds from a parsed object.
MergeFlat(f) ==
    LET data == f.doc.top
        perf == IF f.doc.perfKind = "object" THEN f.doc.perf ELSE EmptyDict
    IN  [tool |-> DictGet(data, "tool", PyStr("")),
         service |-> DictGet(data, "service", PyStr("")),
         dockerfile_type |-> DictGet(data, "dockerfile_type", PyStr("")),
         cache_scenario |-> DictGet(data, "cache_scenario", PyStr("")),
         run_number |-> DictGet(data, "run_number", PyInt(0)),
         timestamp |-> DictGet(data, "timestamp", PyStr("")),
         ci_system |-> DictGet(data, "ci_system", PyStr("")),
         build_duration_seconds |-> DictGet(perf, "build_duration_seconds", PyInt(0)),
         cpu_percent |-> DictGet(perf, "cpu_percent", PyInt(0)),
         cpu_user_seconds |-> DictGet(perf, "cpu_user_seconds", PyInt(0)),
         cpu_system_seconds |-> DictGet(perf, "cpu_system_seconds", PyInt(0)),
         memory_peak_mb |-> DictGet(perf, "memory_peak_mb", PyInt(0)),
         image_size |-> DictGet(perf, "image_size", PyStr("")),
         image_size_bytes |-> DictGet(perf, "image_size_bytes", PyInt(0)),
         cache_hits |-> DictGet(perf, "cache_hits", PyInt(0)),
         cache_total_steps |-> DictGet(perf, "cache_total_steps", PyInt(0)),
         cache_hit_ratio |-> DictGet(perf, "cache_hit_ratio", PyInt(0)),
         exit_code |-> DictGet(data, "exit_code", PyInt(0)),
         source_file |-> PyStr(JoinTokens(Basename(f)) \o ".json")]

\* load_json_file(filepath): <<record>>, or <<>> for the None it returns
\* when anything raised (malformed JSON, data or perf not a dict).
load_json_file(f) ==
    IF DecodeError(f.doc) \/ AttributeError(f.doc) THEN <<>>
    ELSE <<MergeFlat(f)>>

---------------------------------------------------------------------------
\* merge_results.py: main

\* The two filters of the loop: security scans by prefix, and any
\* file with 'benchmark' in its lower-cased name.
MergeExcluded(f) ==
    \/ SegStartsWith(Basename(f), "trivy", "-")
    \/ SegStartsWith(Basename(f), "sbom", "-")
    \/ SegContains(SegLower(Basename(f)), "benchmark")

MergeSkip ==
    /\ prog = "merge" /\ AtFile
    /\ MergeExcluded(Cur)
    /\ idx' = idx + 1
    /\ UNCHANGED <<prog, results_dir, fs, pc, pat, results, all_records,
                   loaded, console, files, groups, lines, df, error>>

\* load_json_file returned a record: `if record` holds, it is appended.
MergeAppend ==
    /\ prog = "merge" /\ AtFile
    /\ ~MergeExcluded(Cur)
    /\ load_json_file(Cur) # <<>>
    /\ all_records' = all_records \o load_json_file(Cur)
    /\ loaded' = Append(loaded, Found[idx])
    /\ idx' = idx + 1
    /\ UNCHANGED <<prog, results_dir, fs, pc, pat, results, console, files,
                   groups, lines, df, error>>

\* load_json_file printed the error and returned None.
MergeLoadError ==
    /\ prog = "merge" /\ AtFile
    /\ ~MergeExcluded(Cur)
    /\ load_json_file(Cur) = <<>>
    /\ console' = Append(console, "Error loading")
    /\ idx' = idx + 1
    /\ UNCHANGED <<prog, results_dir, fs, pc, pat, results, all_records,
                   loaded, files, groups, lines, df, error>>

MergeNextPattern ==
    /\ prog = "merge" /\ pc = "load"
    /\ idx > Len(Found) /\ pat < Len(Patterns)
    /\ pat' = pat + 1
    /\ idx' = 1
    /\ UNCHANGED <<prog, results_dir, fs, pc, results, all_records, loaded,
                   console, files, groups, lines, df, error>>

MergeNoResults ==
    /\ prog = "merge" /\ LoadOver
    /\ NoResults(all_records)
    /\ console' = console \o <<"No JSON result files found!", "Searched in:">>
    /\ pc' = "done"
    /\ UNCHANGED <<prog, results_dir, fs, pat, idx, results, all_records,
                   loaded, files, groups, lines, df, error>>

\* The columns the comment above the sort names: run_number last, but no
\* ci_system first.
SortColumnsOfComment ==
    << "tool", "service", "dockerfile_type", "cache_scenario", "run_number" >>

\* The columns df.sort_values sorts by, in order.
SortColumns ==
    << "ci_system", "tool", "service", "dockerfile_type", "cache_scenario",
       "run_number" >>

SortKey(r) == [c \in 1..Len(SortColumns) |-> r[SortColumns[c]]]

\* The sorted rows with one more: after those not greater than it.
InsertSorted(sorted, r) ==
    LET k == Cardinality({i \in 1..Len(sorted) :
                            ~TupleLess(SortKey(r), SortKey(sorted[i]))})
    IN  SubSeq(sorted, 1, k) \o <<r>> \o SubSeq(sorted, k + 1, Len(sorted))

RECURSIVE sort_values(_)
\* df.sort_values(SortColumns): a stable sort of the rows
sort_values(rs) ==
    IF rs = <<>> THEN <<>>
    ELSE InsertSorted(sort_values(SubSeq(rs, 1, Len(rs) - 1)), rs[Len(rs)])

\* The columns of pd.DataFrame(all_records): the keys of the records in
\* the order load_json_file sets them.
DataFrameColumns ==
    << "tool", "service", "dockerfile_type", "cache_scenario", "run_number",
       "timestamp", "ci_system", "build_duration_seconds", "cpu_percent",
       "cpu_user_seconds", "cpu_system_seconds", "memory_peak_mb",
       "image_size", "image_size_bytes", "cache_hits", "cache_total_steps",
       "cache_hit_ratio", "exit_code", "source_file" >>

\* A statistics file: one row per group, in the order of the group keys.
\* The aggregates of a row are not modelled.
StatsFile(columns, rs) ==
    LET keys == SortedTuples({[c \in 1..Len(columns) |-> r[columns[c]]] :
                                r \in {rs[i] : i \in 1..Len(rs)}})
    IN  [header |-> columns,
         rows |-> [i \in 1..Len(keys) |->
                     [c \in 1..Len(columns) |-> CsvCell(keys[i][c])]]]

ByToolScenario == <<"ci_system", "tool", "cache_scenario">>

\* The files main writes from the sorted frame.
MergeOutputs(frame) ==
    ("all_benchmark_results.csv" :> CsvFile(DataFrameColumns, frame))
    @@ ("stats_build_duration.csv" :> StatsFile(ByToolScenario, frame))
    @@ ("stats_image_size.csv" :>
            StatsFile(<<"tool", "service", "dockerfile_type">>, frame))
    @@ ("stats_memory.csv" :> StatsFile(ByToolScenario, frame))
    @@ ("stats_cpu.csv" :> StatsFile(ByToolScenario, frame))
    @@ ("stats_cache.csv" :> StatsFile(ByToolScenario, frame))
    @@ ("thesis_summary_table.csv" :> StatsFile(ByToolScenario, frame))

\* main with records: the frame is built, sorted and written.
MergeWrite ==
    /\ prog = "merge" /\ LoadOver
    /\ ~NoResults(all_records)
    /\ df' = sort_values(all_records)
    /\ files' = MergeOutputs(sort_values(all_records)) @@ files
    /\ console' = Append(console, "Merged records")
    /\ pc' = "done"
    /\ UNCHANGED <<prog, results_dir, fs, pat, idx, results, all_records,
                   loaded, groups, lines, error>>

---------------------------------------------------------------------------
\* The runs

\* The directories with n files drawn from `choices`.
Disks(choices, n) ==
    {[i \in 1..n |-> Stamp(ch[i], i)] : ch \in [1..n -> choices]}

InitCommon ==
    /\ pc = "load" /\ pat = 1 /\ idx = 1
    /\ results = <<>> /\ all_records = <<>> /\ loaded = <<>>
    /\ files = EmptyFiles
    /\ groups = [k \in {} |-> <<>>]
    /\ lines = <<>> /\ df = <<>> /\ error = ""

\* python collect_metrics.py, with RESULTS_DIR set or not
InitCollect ==
    /\ prog = "collect"
    /\ results_dir \in ResultsDirs
    /\ \E n \in 0..MaxFiles : fs \in Disks(CollectChoices(results_dir), n)
    /\ console = <<"Loading results from">>
    /\ InitCommon

\* python merge_results.py
InitMerge ==
    /\ prog = "merge"
    /\ results_dir = <<>>
    /\ \E n \in 0..MaxFiles : fs \in Disks(MergeChoices, n)
    /\ console = <<>>
    /\ InitCommon

Init == InitCollect \/ InitMerge

Next ==
    \/ LoadSkip \/ LoadAppend \/ LoadWarn \/ LoadRaise \/ LoadNextPattern
    \/ MainNoResults \/ MainExport \/ PrintSummary \/ PrintSummaryRaise
    \/ MergeSkip \/ MergeAppend \/ MergeLoadError \/ MergeNextPattern
    \/ MergeNoResults \/ MergeWrite

Spec == Init /\ [][Next]_vars

---------------------------------------------------------------------------
\* Vocabulary of the properties

\* The records of the run: results (collect_metrics) or all_records (merge).
Records == IF prog = "collect" THEN results ELSE all_records

\* The loader loop is over and returned its list (main may have gone on,
\* and print_summary may have raised since).
LoaderReturned ==
    pc \in {"exported", "done"} \/ (pc = "raised" /\ error = "TypeError")

\* The file parses into a record: a JSON object whose 'performance', when
\* there, is an object.
Parseable(f) ==
    f.doc.kind = "object" /\ f.doc.perfKind \in {"absent", "object"}

\* glob finds the file for some pattern of the script.
Globbed(f) == \E p \in 1..Len(Patterns) : Matches(Patterns[p], f)

\* The file name holds a security-scan marker.
NameHasMarker(f) ==
    \E m \in {"trivy", "sbom", "security"} : SegContains(f.name, m)

\* The positions in fs of the files whose records were appended.
LoadedSet == {loaded[i] : i \in 1..Len(loaded)}

\* How often a value occurs in a sequence.
Count(seq, x) == Cardinality({i \in 1..Len(seq) : seq[i] = x})

MetricFields ==
    { "build_duration_seconds", "cpu_percent", "cpu_user_seconds",
      "cpu_system_seconds", "memory_peak_mb", "image_size",
      "image_size_bytes", "cache_hits", "cache_total_steps",
      "cache_hit_ratio" }

IdentityFields ==
    { "tool", "service", "dockerfile_type", "cache_scenario", "run_number",
      "timestamp", "ci_system", "exit_code" }

\* Where the input gives a declared field: at top level, or, for a metric
\* of the nested schema, under 'performance'.
InputHolder(doc, k) ==
    IF k \in MetricFields /\ doc.perfKind = "object" THEN doc.perf ELSE doc.top

\* The record matches its input on every declared field the input gives.
RoundTrips(rec, doc) ==
    \A k \in IdentityFields \cup MetricFields :
        k \in DOMAIN InputHolder(doc, k) => rec[k] = InputHolder(doc, k)[k]

\* The file a row of the merged frame came from (by its source_file).
SourceOf(rec) ==
    CHOOSE f \in {fs[i] : i \in 1..Len(fs)} :
        PyStr(JoinTokens(Basename(f)) \o ".json") = rec.source_file

---------------------------------------------------------------------------
\* C1: no record comes from a file matching the exclusion patterns
\* (collect_metrics: a file name containing 'trivy', 'sbom' or 'security';
\* merge_results: a basename starting with 'trivy-' or 'sbom-'), and
\* load_results drops no parseable file whose name holds no marker, whatever
\* its directory or results_dir are called.
C1_OnlyMarkedNamesExcluded ==
    /\ \A i \in 1..Len(loaded) :
          IF prog = "collect" THEN ~NameHasMarker(fs[loaded[i]])
          ELSE /\ ~SegStartsWith(Basename(fs[loaded[i]]), "trivy", "-")
               /\ ~SegStartsWith(Basename(fs[loaded[i]]), "sbom", "-")
    /\ (prog = "collect" /\ LoaderReturned) =>
          \A j \in 1..Len(fs) :
              (Globbed(fs[j]) /\ Parseable(fs[j]) /\ ~NameHasMarker(fs[j]))
                  => j \in LoadedSet

\* C2: every declared field the input gives, nested under 'performance' or
\* at top level, has the input's value in the flattened record and, once
\* the CSV is written, that value's text in the record's row.
C2_DeclaredFieldsRoundTrip ==
    /\ \A i \in 1..Len(Records) : RoundTrips(Records[i], fs[loaded[i]].doc)
    /\ (prog = "collect" /\ "OUTPUT_CSV" \in DOMAIN files) =>
          \A i \in 1..Len(results) :
              files["OUTPUT_CSV"].rows[i] = CsvRow(fieldnames, results[i])
    /\ (prog = "merge" /\ "all_benchmark_results.csv" \in DOMAIN files) =>
          \A i \in 1..Len(df) :
              /\ RoundTrips(df[i], SourceOf(df[i]).doc)
              /\ files["all_benchmark_results.csv"].rows[i]
                     = CsvRow(DataFrameColumns, df[i])

\* C3: an unparseable file (malformed JSON, JSON that is no object, an
\* object whose 'performance' is no object) is never fatal: the loader does
\* not raise, and when it returns its list holds a record of every other
\* file glob found and the filter kept.
C3_UnparseableNeverFatal ==
    /\ error # "AttributeError"
    /\ LoaderReturned =>
          \A j \in 1..Len(fs) :
              ( /\ Globbed(fs[j]) /\ Parseable(fs[j])
                /\ ~(IF prog = "collect" THEN Excluded(fs[j])
                     ELSE MergeExcluded(fs[j])) )
                  => j \in LoadedSet

MeanOfAll(runs, field) ==
    <<SumSeq([i \in 1..Len(runs) |-> runs[i][field].n]), Len(runs)>>

\* C5: each line print_summary prints reports, for build_duration_seconds,
\* cpu_percent, memory_peak_mb and cache_hit_ratio, the arithmetic mean
\* over all the records of the group, the ones its count N counts.
C5_MeansOverAllRecords ==
    (prog = "collect" /\ pc = "done") =>
        \A i \in 1..Len(lines) :
            LET key == SortedTuples(DOMAIN groups)[i]
                runs == groups[key]
            IN  /\ lines[i].n = Len(runs)
                /\ lines[i].mean_dur
                     = FormatF(MeanOfAll(runs, "build_duration_seconds"), 2)
                /\ lines[i].mean_cpu = FormatF(MeanOfAll(runs, "cpu_percent"), 1)
                /\ lines[i].mean_mem
                     = FormatF(MeanOfAll(runs, "memory_peak_mb"), 1)
                /\ lines[i].mean_cache
                     = FormatF(MeanOfAll(runs, "cache_hit_ratio"), 4)

\* C6: for every non-empty list load_results returns, records with None
\* for tool, service, dockerfile_type or cache_scenario included,
\* print_summary does not raise and prints one line per group.
C6_SummaryNeverRaises ==
    /\ error # "TypeError"
    /\ (prog = "collect" /\ pc = "done" /\ results # <<>>) =>
          Len(lines) = Cardinality(DOMAIN groups)

\* C7: the file export_to_csv writes has the 18 columns below as its
\* header, in this order, whatever the records are, and one cell per
\* column in each row, one row per record.
C7_FixedColumnOrder ==
    "OUTPUT_CSV" \in DOMAIN files =>
        /\ files["OUTPUT_CSV"].header =
              << "tool", "service", "dockerfile_type", "cache_scenario",
                 "run_number", "timestamp", "ci_system",
                 "build_duration_seconds", "cpu_percent", "cpu_user_seconds",
                 "cpu_system_seconds", "memory_peak_mb", "image_size",
                 "image_size_bytes", "cache_hits", "cache_total_steps",
                 "cache_hit_ratio", "exit_code" >>
        /\ Len(files["OUTPUT_CSV"].rows) = Len(results)
        /\ \A i \in 1..Len(results) : Len(files["OUTPUT_CSV"].rows[i]) = 18

\* C7's case: a CSV was written from two records with different contents.
C7_Witness ==
    /\ "OUTPUT_CSV" \in DOMAIN files
    /\ \E i, j \in 1..Len(results) : results[i] # results[j]

\* C8: load_results returns exactly one record per parseable file under
\* results_dir that its filter keeps: no file is loaded twice, and the
\* list is as long as there are such files.
C8_OneRecordPerFile ==
    (prog = "collect" /\ LoaderReturned) =>
        /\ \A i, j \in 1..Len(loaded) : loaded[i] = loaded[j] => i = j
        /\ Len(results) =
              Cardinality({j \in 1..Len(fs) :
                  /\ IsPrefix(results_dir, fs[j].dir)
                  /\ Parseable(fs[j]) /\ ~Excluded(fs[j])})

\* The key the merged rows are ordered by.
C9_Key(r) ==
    <<r.ci_system, r.tool, r.service, r.dockerfile_type, r.cache_scenario,
      r.run_number>>

C10_Timed == {i \in 1..Len(results) : results[i].build_duration_seconds # PyNone}

RECURSIVE C10_SumN(_)
\* The sum of the counts N of the printed lines.
C10_SumN(ls) == IF ls = <<>> THEN 0 ELSE Head(ls).n + C10_SumN(Tail(ls))

====
